---- MODULE Spec2Model ----
(***************************************************************************)
(* CompanionComponent (src/components/CompanionComponent.tsx): a React     *)
(* component that drives one voice session through the vapi SDK client.    *)
(*                                                                         *)
(* React state is one variable per useState hook.  Callbacks created with  *)
(* useCallback/useEffect close over the values of the render that created  *)
(* them; `rendered` holds those values.  State updates made inside an SDK  *)
(* callback, a timer callback or a promise continuation are applied at     *)
(* once to the hook's state but are committed to `rendered` only by the    *)
(* next Render step, so several such callbacks can run against one render. *)
(* Updates made by a user input event (click, keydown) are flushed         *)
(* synchronously by React, and user input is taken to arrive on a          *)
(* committed render.                                                       *)
(***************************************************************************)
EXTENDS Integers, Sequences, FiniteSets, TLC

VARIABLES
    callStatus,            \* useState<CallStatus>                      l.36
    isSpeaking,            \* useState(false)                           l.37
    isListening,           \* useState(false)                           l.38
    isMuted,               \* useState(false)                           l.39
    messages,              \* useState<SavedMessage[]>([])              l.40
    audioLevel,            \* useState(0)                               l.41
    connectionQuality,     \* useState('good')                          l.42
    lastUserInput,         \* useState('')                              l.43
    voiceActivityTimeout,  \* useState<Timeout|null>: timer id, 0 = null l.44
    retryCount,            \* useState(0)                               l.45
    conversationContext,   \* useState<ConversationContext>             l.46
    rendered,              \* values the current closures were created with
    voiceTimers,           \* pending setTimeout(..., 3000) callbacks   l.73
    retryTimers,           \* pending setTimeout(..., 1000*retryCount) per delay, l.124
    vapiMuted,             \* the SDK client's muted flag (vapi.isMuted())
    startPending,          \* vapi.start() promises not yet settled     l.279
    stopPending,           \* vapi.stop() promises not yet settled      l.291
    alerts,                \* alert() dialogs raised, in order
    historyThisCall,       \* addToSessionHistory() calls since the last start(), l.154
    setMutedCalls,         \* vapi.setMuted() calls                     l.254
    transcriptFinals,      \* final-transcript events handled, in arrival order
    cleared,               \* the Clear button has been used
    now,                   \* the clock new Date() reads                l.169
    mounted,               \* the component instance is mounted
    vapiHandlers           \* handlers registered with vapi.on()        l.217-225

vars == << callStatus, isSpeaking, isListening, isMuted, messages, audioLevel,
           connectionQuality, lastUserInput, voiceActivityTimeout, retryCount,
           conversationContext, rendered, voiceTimers, retryTimers, vapiMuted, mounted, vapiHandlers,
           startPending, stopPending, alerts, historyThisCall,
           setMutedCalls, transcriptFinals, cleared, now >>

\* ------------------------------------------------------------------ bounds
MaxPendingTimers == 2
MaxTranscriptTimers == 1
MaxPendingStarts == 1
MaxPendingStops == 1
MaxAlerts == 2
MaxHistory == 2
MaxToggles == 2
MaxFinals == 2
MaxContextFinals == 11
MaxClock == 1
MaxRetryTimers == 4
MaxRetryCount == 4

\* ------------------------------------------------------- program constants
INACTIVE == "INACTIVE"
CONNECTING == "CONNECTING"
ACTIVE == "ACTIVE"
FINISHED == "FINISHED"
CallStatus == {INACTIVE, CONNECTING, ACTIVE, FINISHED}
VoiceQuality == {"low", "medium", "high"}
SilenceMs == 3000
RetryLimit == 3
RetryStepMs == 1000
ContextLimit == 10
\* the delays 1000 * retryCount that pass the guard retryCount < 3
RetryDelays == {RetryStepMs * n : n \in 0..(RetryLimit - 1)}
StartFailedAlert == "Failed to start conversation. Please check your connection and try again."
RetriesExhaustedAlert == "Connection failed after 3 attempts. Please check your internet connection and try again."

\* ------------------------------------------------------------ input domains
Roles == {"user", "assistant"}
PartialTranscripts == {"hel"}
FinalTranscripts == {"hello"}
Volumes == {0, 1}
Qualities == {"good", "poor"}
\* the nine events, in the order of the vapi.on calls, l.217-225
EventNames ==
    << "call-start", "call-end", "message", "speech-start", "speech-end",
       "transcript-start", "transcript-end", "volume-level",
       "connection-quality-change" >>
\* how many of the nine vapi.on or vapi.off calls of one try block took effect
\* before one threw: none, some, or all of them when none threw
CallsDone == {0, Len(EventNames) \div 2, Len(EventNames)}
Keys == {"CtrlSpace", "Escape", "CtrlEnter", "Enter"}
TimerIds == 1..(MaxPendingTimers + 2)
TranscriptMessages ==
    [type : {"transcript"}, transcriptType : {"partial"},
     role : Roles, transcript : PartialTranscripts]
    \cup
    [type : {"transcript"}, transcriptType : {"final"},
     role : Roles, transcript : FinalTranscripts]
OtherMessages ==
    [type : {"status-update"}, transcriptType : {"partial"},
     role : {"assistant"}, transcript : {"hel"}]
SdkMessages == TranscriptMessages \cup OtherMessages
\* the single utterance used where only the number of final events matters
ContextMessages == {m \in TranscriptMessages : m.role = "user"}

\* ---------------------------------------------------------------- helpers
\* a slice that keeps the whole array
SliceKeepsAll(s, n) == s

\* Array.prototype.slice(0, n)
Slice(s, n) == IF Len(s) <= n THEN s ELSE SubSeq(s, 1, n)

RECURSIVE Reverse(_)
Reverse(s) == IF s = << >> THEN << >> ELSE Append(Reverse(Tail(s)), Head(s))

\* the values a render hands to the closures it creates
Snapshot ==
    [callStatus |-> callStatus,
     isListening |-> isListening,
     isSpeaking |-> isSpeaking,
     voiceActivityTimeout |-> voiceActivityTimeout,
     retryCount |-> retryCount,
     hasMessages |-> Len(messages) > 0]

Committed == rendered = Snapshot

\* setTimeout returns an id no live reference holds
UsedTimerIds ==
    {t.id : t \in voiceTimers} \cup {voiceActivityTimeout, rendered.voiceActivityTimeout}
FreshTimerId == CHOOSE i \in TimerIds : i \notin UsedTimerIds /\ \A j \in TimerIds : j < i => j \in UsedTimerIds

\* clearTimeout(id): a no-op on an id that is not pending
ClearTimeout(timers, id) == {t \in timers : t.id # id}

\* A registered handler is named by its event and by whether the render that
\* created it is the current one.
HandlersOf(n) == {[event |-> EventNames[i], render |-> "current"] : i \in 1..n}

\* the try block of l.216-230 with its first n vapi.on calls taking effect
Subscribe(handlers, n) == handlers \cup HandlersOf(n)

\* the try block of l.233-247 with its first n vapi.off calls taking effect;
\* vapi.off of a handler that is not registered removes nothing
Unsubscribe(handlers, n) == handlers \ HandlersOf(n)

\* the handlers still registered once their render's cleanup has run
Stale(handlers) == {[event |-> h.event, render |-> "stale"] : h \in handlers}

\* the dependency list of l.249: retryConnection changes with retryCount,
\* resetVoiceActivityTimeout with isListening, isSpeaking and
\* voiceActivityTimeout; companionId is a prop that stays
EffectDepsChanged ==
    \/ rendered.retryCount # retryCount
    \/ rendered.isListening # isListening
    \/ rendered.isSpeaking # isSpeaking
    \/ rendered.voiceActivityTimeout # voiceActivityTimeout

Init ==
    /\ callStatus = INACTIVE
    /\ isSpeaking = FALSE
    /\ isListening = FALSE
    /\ isMuted = FALSE
    /\ messages = << >>
    /\ audioLevel = 0
    /\ connectionQuality = "good"
    /\ lastUserInput = ""
    /\ voiceActivityTimeout = 0
    /\ retryCount = 0
    /\ conversationContext =
          [previousMessages |-> << >>,
           userPreferences |-> [voiceQuality |-> "medium",
                                noiseReduction |-> TRUE,
                                echoCancellation |-> TRUE]]
    /\ rendered = [callStatus |-> INACTIVE, isListening |-> FALSE,
                   isSpeaking |-> FALSE, voiceActivityTimeout |-> 0,
                   retryCount |-> 0, hasMessages |-> FALSE]
    /\ voiceTimers = {}
    /\ retryTimers = [d \in RetryDelays |-> 0]
    /\ vapiMuted = FALSE
    /\ startPending = 0
    /\ stopPending = 0
    /\ alerts = << >>
    /\ historyThisCall = 0
    /\ setMutedCalls = 0
    /\ transcriptFinals = << >>
    /\ cleared = FALSE
    /\ now = 0
    /\ mounted = TRUE
    /\ vapiHandlers = Subscribe({}, Len(EventNames))

\* React commits the pending state: new closures see the current values.  The
\* effect of l.138-249 runs its cleanup and registers the handlers of the new
\* render when one of its dependencies changed; `offs` of the nine vapi.off
\* calls and `ons` of the nine vapi.on calls took effect.
RenderEffects(offs, ons) ==
    /\ mounted
    /\ ~Committed
    /\ rendered' = Snapshot
    /\ vapiHandlers' =
          IF EffectDepsChanged
            THEN Subscribe(Stale(Unsubscribe(vapiHandlers, offs)), ons)
            ELSE vapiHandlers
    /\ UNCHANGED << callStatus, isSpeaking, isListening, isMuted, messages,
                    audioLevel, connectionQuality, lastUserInput,
                    voiceActivityTimeout, retryCount, conversationContext,
                    voiceTimers, retryTimers, vapiMuted, mounted, startPending,
                    stopPending, alerts, historyThisCall,
                    setMutedCalls, transcriptFinals, cleared, now >>

\* a render in which no vapi.on or vapi.off call throws
Render == RenderEffects(Len(EventNames), Len(EventNames))

\* The component unmounts: React runs the cleanup of the last committed effect,
\* l.232-248, with `offs` of its vapi.off calls taking effect.  State the
\* instance had not yet rendered is dropped with it.
Unmount(offs) ==
    /\ mounted
    /\ mounted' = FALSE
    /\ vapiHandlers' = Stale(Unsubscribe(vapiHandlers, offs))
    /\ UNCHANGED << callStatus, isSpeaking, isListening, isMuted, messages,
                    audioLevel, connectionQuality, lastUserInput,
                    voiceActivityTimeout, retryCount, conversationContext,
                    rendered, voiceTimers, retryTimers, vapiMuted, startPending,
                    stopPending, alerts, historyThisCall, setMutedCalls,
                    transcriptFinals, cleared, now >>

\* The component mounts again: a new instance with the initial useState values
\* of l.36-55 registers its handlers, `ons` of the vapi.on calls taking effect.
\* The SDK client is shared, so what the earlier instance left registered
\* stays.  The earlier instance's silence timers write only its own state and
\* are dropped.
Mount(ons) ==
    /\ ~mounted
    /\ mounted' = TRUE
    /\ vapiHandlers' = Subscribe(vapiHandlers, ons)
    /\ callStatus' = INACTIVE
    /\ isSpeaking' = FALSE
    /\ isListening' = FALSE
    /\ isMuted' = FALSE
    /\ messages' = << >>
    /\ audioLevel' = 0
    /\ connectionQuality' = "good"
    /\ lastUserInput' = ""
    /\ voiceActivityTimeout' = 0
    /\ retryCount' = 0
    /\ conversationContext' =
          [previousMessages |-> << >>,
           userPreferences |-> [voiceQuality |-> "medium",
                                noiseReduction |-> TRUE,
                                echoCancellation |-> TRUE]]
    /\ rendered' = [callStatus |-> INACTIVE, isListening |-> FALSE,
                    isSpeaking |-> FALSE, voiceActivityTimeout |-> 0,
                    retryCount |-> 0, hasMessages |-> FALSE]
    /\ voiceTimers' = {}
    /\ historyThisCall' = 0
    /\ transcriptFinals' = << >>
    /\ cleared' = FALSE
    /\ UNCHANGED << retryTimers, vapiMuted, startPending, stopPending, alerts,
                    setMutedCalls, now >>

Tick ==
    /\ now' = now + 1
    /\ UNCHANGED << callStatus, isSpeaking, isListening, isMuted, messages,
                    audioLevel, connectionQuality, lastUserInput,
                    voiceActivityTimeout, retryCount, conversationContext,
                    rendered, voiceTimers, retryTimers, vapiMuted, mounted, vapiHandlers,
                    startPending, stopPending, alerts, historyThisCall, setMutedCalls, transcriptFinals, cleared >>

\* ------------------------------------------------- voice-activity timer
\* resetVoiceActivityTimeout, l.68-81.  The callback reads voiceActivityTimeout,
\* isListening and isSpeaking from the render that created it; the timer it
\* arms keeps that render's isListening and isSpeaking.
ResetVoiceActivityTimeout ==
    /\ voiceTimers' =
          (IF rendered.voiceActivityTimeout # 0
             THEN ClearTimeout(voiceTimers, rendered.voiceActivityTimeout)
             ELSE voiceTimers)
          \cup {[id |-> FreshTimerId, delay |-> SilenceMs,
                 isListening |-> rendered.isListening,
                 isSpeaking |-> rendered.isSpeaking]}
    /\ voiceActivityTimeout' = FreshTimerId

\* the setTimeout callback of l.73-78
VoiceActivityTimeoutFires(t) ==
    /\ t \in voiceTimers
    /\ voiceTimers' = voiceTimers \ {t}
    /\ isListening' = IF t.isListening /\ ~t.isSpeaking THEN FALSE ELSE isListening
    /\ UNCHANGED << callStatus, isSpeaking, isMuted, messages, audioLevel,
                    connectionQuality, lastUserInput, voiceActivityTimeout,
                    retryCount, conversationContext, rendered, retryTimers,
                    vapiMuted, mounted, vapiHandlers, startPending, stopPending, alerts, historyThisCall, setMutedCalls, transcriptFinals, cleared, now >>

\* --------------------------------------------------------- SDK event relay
\* onCallStart without its setRetryCount(0)
OnCallStartKeepsRetryCount ==
    /\ callStatus' = ACTIVE
    /\ connectionQuality' = "good"
    /\ UNCHANGED << isSpeaking, isListening, isMuted, messages, audioLevel,
                    lastUserInput, voiceActivityTimeout, retryCount,
                    conversationContext, rendered, voiceTimers, retryTimers,
                    vapiMuted, mounted, vapiHandlers, startPending, stopPending,
                    alerts, historyThisCall, setMutedCalls, transcriptFinals,
                    cleared, now >>

\* onCallStart, l.139-144
OnCallStart ==
    /\ callStatus' = ACTIVE
    /\ retryCount' = 0
    /\ connectionQuality' = "good"
    /\ UNCHANGED << isSpeaking, isListening, isMuted, messages, audioLevel,
                    lastUserInput, voiceActivityTimeout, conversationContext,
                    rendered, voiceTimers, retryTimers, vapiMuted, mounted, vapiHandlers, startPending,
                    stopPending, alerts, historyThisCall,
                    setMutedCalls, transcriptFinals, cleared, now >>

\* the body of onCallEnd, l.146-156
CallEnded ==
    /\ callStatus' = FINISHED
    /\ isListening' = FALSE
    /\ isSpeaking' = FALSE
    /\ audioLevel' = 0
    /\ voiceTimers' =
          IF rendered.voiceActivityTimeout # 0
            THEN ClearTimeout(voiceTimers, rendered.voiceActivityTimeout)
            ELSE voiceTimers
    /\ historyThisCall' = historyThisCall + 1

\* the SDK delivers call-end to the registered handler
OnCallEnd ==
    /\ CallEnded
    /\ UNCHANGED << isMuted, messages, connectionQuality, lastUserInput,
                    voiceActivityTimeout, retryCount, conversationContext,
                    rendered, retryTimers, vapiMuted, mounted, vapiHandlers, startPending, stopPending,
                    alerts, setMutedCalls, transcriptFinals, cleared, now >>

\* the new message pushed to the back: [...prev, newMessage]
PrependAtBack(newMessage, prev) == Append(prev, newMessage)

\* [newMessage, ...prev], l.171 and l.174
Prepend(newMessage, prev) == << newMessage >> \o prev

\* the message built from the in-flight partial input instead of the event
NewMessageFromPartial(message) ==
    [role |-> message.role, content |-> lastUserInput, timestamp |-> now]

\* the message built at l.166-170
NewMessage(message) ==
    [role |-> message.role, content |-> message.transcript, timestamp |-> now]

\* onMessage, l.158-179
OnMessage(message) ==
    IF message.type = "transcript" /\ message.transcriptType = "partial" THEN
        /\ lastUserInput' = message.transcript
        /\ ResetVoiceActivityTimeout
        /\ UNCHANGED << callStatus, isSpeaking, isListening, isMuted, messages,
                        audioLevel, connectionQuality, retryCount,
                        conversationContext, rendered, retryTimers, vapiMuted, mounted, vapiHandlers,
                        startPending, stopPending, alerts, historyThisCall, setMutedCalls, transcriptFinals, cleared,
                        now >>
    ELSE IF message.type = "transcript" /\ message.transcriptType = "final" THEN
        /\ messages' = Prepend(NewMessage(message), messages)
        /\ conversationContext' =
              [conversationContext EXCEPT !.previousMessages =
                  Slice(Prepend(NewMessage(message), @), ContextLimit)]
        /\ lastUserInput' = ""
        /\ transcriptFinals' = Append(transcriptFinals,
                                      [role |-> message.role,
                                       content |-> message.transcript,
                                       timestamp |-> now])
        /\ UNCHANGED << callStatus, isSpeaking, isListening, isMuted, audioLevel,
                        connectionQuality, voiceActivityTimeout, retryCount,
                        rendered, voiceTimers, retryTimers, vapiMuted, mounted, vapiHandlers,
                        startPending, stopPending, alerts, historyThisCall, setMutedCalls, cleared, now >>
    ELSE UNCHANGED vars

\* onSpeechStart, l.181-188
OnSpeechStart ==
    /\ isSpeaking' = TRUE
    /\ isListening' = FALSE
    /\ voiceTimers' =
          IF rendered.voiceActivityTimeout # 0
            THEN ClearTimeout(voiceTimers, rendered.voiceActivityTimeout)
            ELSE voiceTimers
    /\ UNCHANGED << callStatus, isMuted, messages, audioLevel, connectionQuality,
                    lastUserInput, voiceActivityTimeout, retryCount,
                    conversationContext, rendered, retryTimers, vapiMuted, mounted, vapiHandlers,
                    startPending, stopPending, alerts, historyThisCall, setMutedCalls, transcriptFinals, cleared, now >>

\* onSpeechEnd, l.190-193
OnSpeechEnd ==
    /\ isSpeaking' = FALSE
    /\ UNCHANGED << callStatus, isListening, isMuted, messages, audioLevel,
                    connectionQuality, lastUserInput, voiceActivityTimeout,
                    retryCount, conversationContext, rendered, voiceTimers,
                    retryTimers, vapiMuted, mounted, vapiHandlers, startPending, stopPending, alerts,
                    historyThisCall, setMutedCalls, transcriptFinals,
                    cleared, now >>

\* onTranscriptStart, l.195-199
OnTranscriptStart ==
    /\ isListening' = TRUE
    /\ ResetVoiceActivityTimeout
    /\ UNCHANGED << callStatus, isSpeaking, isMuted, messages, audioLevel,
                    connectionQuality, lastUserInput, retryCount,
                    conversationContext, rendered, retryTimers, vapiMuted, mounted, vapiHandlers,
                    startPending, stopPending, alerts, historyThisCall, setMutedCalls, transcriptFinals, cleared, now >>

\* onTranscriptEnd, l.201-204
OnTranscriptEnd ==
    /\ isListening' = FALSE
    /\ UNCHANGED << callStatus, isSpeaking, isMuted, messages, audioLevel,
                    connectionQuality, lastUserInput, voiceActivityTimeout,
                    retryCount, conversationContext, rendered, voiceTimers,
                    retryTimers, vapiMuted, mounted, vapiHandlers, startPending, stopPending, alerts,
                    historyThisCall, setMutedCalls, transcriptFinals,
                    cleared, now >>

\* onVolumeLevel, l.206-208
OnVolumeLevel(volume) ==
    /\ audioLevel' = volume
    /\ UNCHANGED << callStatus, isSpeaking, isListening, isMuted, messages,
                    connectionQuality, lastUserInput, voiceActivityTimeout,
                    retryCount, conversationContext, rendered, voiceTimers,
                    retryTimers, vapiMuted, mounted, vapiHandlers, startPending, stopPending, alerts,
                    historyThisCall, setMutedCalls, transcriptFinals,
                    cleared, now >>

\* onConnectionQualityChange, l.210-213
OnConnectionQualityChange(quality) ==
    /\ connectionQuality' = quality
    /\ UNCHANGED << callStatus, isSpeaking, isListening, isMuted, messages,
                    audioLevel, lastUserInput, voiceActivityTimeout, retryCount,
                    conversationContext, rendered, voiceTimers, retryTimers,
                    vapiMuted, mounted, vapiHandlers, startPending, stopPending, alerts, historyThisCall, setMutedCalls, transcriptFinals, cleared, now >>

\* ---------------------------------------------------- call state controller
callVars == << callStatus, startPending, stopPending, historyThisCall >>
micVars == << isMuted, vapiMuted, setMutedCalls >>
prefVars == << conversationContext >>
\* what no user control of the session writes
relayVars == << isSpeaking, isListening, messages, audioLevel, connectionQuality,
                lastUserInput, voiceActivityTimeout, retryCount, voiceTimers,
                retryTimers, alerts, transcriptFinals, cleared, now, mounted,
                vapiHandlers >>

\* handleCall with the phase left alone until vapi.start settles
HandleCallPhaseLate ==
    /\ callStatus' = callStatus
    /\ startPending' = startPending + 1
    /\ historyThisCall' = 0
    /\ UNCHANGED stopPending

\* handleCall up to its await, l.262-279: the phase is set before vapi.start
\* is called, and the promise is left pending.  A new call starts with no
\* history entry of its own.
HandleCall ==
    /\ callStatus' = CONNECTING
    /\ startPending' = startPending + 1
    /\ historyThisCall' = 0
    /\ UNCHANGED stopPending

\* handleDisconnect up to its await, l.288-291
HandleDisconnect ==
    /\ callStatus' = FINISHED
    /\ stopPending' = stopPending + 1
    /\ UNCHANGED << startPending, historyThisCall >>

\* toggleMicrophone, l.251-260; vapi.isMuted() or vapi.setMuted() may throw
ToggleOutcomes == {"ok", "isMutedThrows", "setMutedThrows"}

\* toggleMicrophone with setIsMuted called before vapi.setMuted
ToggleMicrophoneFlagFirst(outcome) ==
    /\ vapiMuted' = IF outcome = "ok" THEN ~vapiMuted ELSE vapiMuted
    /\ isMuted' = IF outcome = "isMutedThrows" THEN isMuted ELSE ~vapiMuted
    /\ setMutedCalls' = IF outcome = "isMutedThrows" THEN setMutedCalls ELSE setMutedCalls + 1

ToggleMicrophone(outcome) ==
    /\ vapiMuted' = IF outcome = "ok" THEN ~vapiMuted ELSE vapiMuted
    /\ isMuted' = IF outcome = "ok" THEN ~vapiMuted ELSE isMuted
    /\ setMutedCalls' = IF outcome = "isMutedThrows" THEN setMutedCalls ELSE setMutedCalls + 1

\* vapi.start() resolves: l.280 only logs
VapiStartResolves ==
    /\ startPending > 0
    /\ startPending' = startPending - 1
    /\ UNCHANGED << callStatus, isSpeaking, isListening, isMuted, messages,
                    audioLevel, connectionQuality, lastUserInput,
                    voiceActivityTimeout, retryCount, conversationContext,
                    rendered, voiceTimers, retryTimers, vapiMuted, mounted, vapiHandlers, stopPending,
                    alerts, historyThisCall, setMutedCalls, transcriptFinals,
                    cleared, now >>

\* the catch block of handleCall without its setCallStatus(INACTIVE)
VapiStartRejectsKeepsPhase ==
    /\ startPending > 0
    /\ startPending' = startPending - 1
    /\ alerts' = Append(alerts, StartFailedAlert)
    /\ UNCHANGED << callStatus, isSpeaking, isListening, isMuted, messages,
                    audioLevel, connectionQuality, lastUserInput,
                    voiceActivityTimeout, retryCount, conversationContext,
                    rendered, voiceTimers, retryTimers, vapiMuted, mounted,
                    vapiHandlers, stopPending, historyThisCall, setMutedCalls,
                    transcriptFinals, cleared, now >>

\* vapi.start() rejects: the catch block of handleCall, l.281-285
VapiStartRejects ==
    /\ startPending > 0
    /\ startPending' = startPending - 1
    /\ callStatus' = INACTIVE
    /\ alerts' = Append(alerts, StartFailedAlert)
    /\ UNCHANGED << isSpeaking, isListening, isMuted, messages, audioLevel,
                    connectionQuality, lastUserInput, voiceActivityTimeout,
                    retryCount, conversationContext, rendered, voiceTimers,
                    retryTimers, vapiMuted, mounted, vapiHandlers, stopPending, historyThisCall,
                    setMutedCalls, transcriptFinals, cleared, now >>

\* vapi.stop() resolves: the SDK has ended the call and delivered call-end to
\* the registered handler (the only way a user disconnect reaches
\* addToSessionHistory); l.292 only logs
VapiStopResolves ==
    /\ stopPending > 0
    /\ stopPending' = stopPending - 1
    /\ CallEnded
    /\ UNCHANGED << isMuted, messages, connectionQuality, lastUserInput,
                    voiceActivityTimeout, retryCount, conversationContext,
                    rendered, retryTimers, vapiMuted, mounted, vapiHandlers, startPending, alerts,
                    setMutedCalls, transcriptFinals, cleared, now >>

\* the catch block of handleDisconnect putting the phase back to ACTIVE
VapiStopRejectsReverts ==
    /\ stopPending > 0
    /\ stopPending' = stopPending - 1
    /\ callStatus' = ACTIVE
    /\ UNCHANGED << isSpeaking, isListening, isMuted, messages, audioLevel,
                    connectionQuality, lastUserInput, voiceActivityTimeout,
                    retryCount, conversationContext, rendered, voiceTimers,
                    retryTimers, vapiMuted, mounted, vapiHandlers, startPending,
                    alerts, historyThisCall, setMutedCalls, transcriptFinals,
                    cleared, now >>

\* vapi.stop() rejects: the catch block of handleDisconnect, l.293-295, logs
VapiStopRejects ==
    /\ stopPending > 0
    /\ stopPending' = stopPending - 1
    /\ UNCHANGED << callStatus, isSpeaking, isListening, isMuted, messages,
                    audioLevel, connectionQuality, lastUserInput,
                    voiceActivityTimeout, retryCount, conversationContext,
                    rendered, voiceTimers, retryTimers, vapiMuted, mounted, vapiHandlers, startPending,
                    alerts, historyThisCall, setMutedCalls, transcriptFinals,
                    cleared, now >>

\* ------------------------------------------------------------ user controls
\* the session button while it reads "Start Session", l.453-469
ClickStartSession ==
    /\ Committed
    /\ rendered.callStatus # CONNECTING
    /\ rendered.callStatus # ACTIVE
    /\ HandleCall
    /\ UNCHANGED << micVars, prefVars, relayVars >>
    /\ rendered' = Snapshot'

\* the session button while it reads "End Session", l.453-469
ClickEndSession ==
    /\ Committed
    /\ rendered.callStatus # CONNECTING
    /\ rendered.callStatus = ACTIVE
    /\ HandleDisconnect
    /\ UNCHANGED << micVars, prefVars, relayVars >>
    /\ rendered' = Snapshot'

\* the microphone button without its disabled attribute
ClickMicrophoneNeverDisabled(outcome) ==
    /\ Committed
    /\ ToggleMicrophone(outcome)
    /\ UNCHANGED << callVars, prefVars, relayVars >>
    /\ rendered' = Snapshot'

\* the microphone button, l.436-440
ClickMicrophone(outcome) ==
    /\ Committed
    /\ rendered.callStatus = ACTIVE
    /\ ToggleMicrophone(outcome)
    /\ UNCHANGED << callVars, prefVars, relayVars >>
    /\ rendered' = Snapshot'

\* handleKeyPress with Ctrl+Enter starting whenever the session button would
HandleKeyPressStartsLikeButton(key, outcome) ==
    /\ Committed
    /\ IF key = "CtrlSpace" THEN
          IF rendered.callStatus = ACTIVE
            THEN ToggleMicrophone(outcome) /\ UNCHANGED callVars
            ELSE UNCHANGED << callVars, micVars >>
       ELSE IF key = "Escape" THEN
          IF rendered.callStatus = ACTIVE
            THEN HandleDisconnect /\ UNCHANGED micVars
            ELSE UNCHANGED << callVars, micVars >>
       ELSE IF key = "CtrlEnter" THEN
          IF rendered.callStatus \in {INACTIVE, FINISHED}
            THEN HandleCall /\ UNCHANGED micVars
            ELSE UNCHANGED << callVars, micVars >>
       ELSE UNCHANGED << callVars, micVars >>
    /\ UNCHANGED << prefVars, relayVars >>
    /\ rendered' = Snapshot'

\* handleKeyPress, l.96-112
HandleKeyPress(key, outcome) ==
    /\ Committed
    /\ IF key = "CtrlSpace" THEN
          IF rendered.callStatus = ACTIVE
            THEN ToggleMicrophone(outcome) /\ UNCHANGED callVars
            ELSE UNCHANGED << callVars, micVars >>
       ELSE IF key = "Escape" THEN
          IF rendered.callStatus = ACTIVE
            THEN HandleDisconnect /\ UNCHANGED micVars
            ELSE UNCHANGED << callVars, micVars >>
       ELSE IF key = "CtrlEnter" THEN
          IF rendered.callStatus = INACTIVE
            THEN HandleCall /\ UNCHANGED micVars
            ELSE UNCHANGED << callVars, micVars >>
       ELSE UNCHANGED << callVars, micVars >>
    /\ UNCHANGED << prefVars, relayVars >>
    /\ rendered' = Snapshot'

\* the Clear button emptying the context window with the message list
ClickClearForgetsContext ==
    /\ Committed
    /\ rendered.hasMessages
    /\ messages' = << >>
    /\ conversationContext' =
          [conversationContext EXCEPT !.previousMessages = << >>]
    /\ cleared' = TRUE
    /\ UNCHANGED << callVars, micVars, isSpeaking, isListening,
                    audioLevel, connectionQuality, lastUserInput,
                    voiceActivityTimeout, retryCount, voiceTimers, retryTimers,
                    alerts, transcriptFinals, now, mounted, vapiHandlers >>
    /\ rendered' = Snapshot'

\* the Clear button, l.484-492
ClickClear ==
    /\ Committed
    /\ rendered.hasMessages
    /\ messages' = << >>
    /\ cleared' = TRUE
    /\ UNCHANGED << callVars, micVars, prefVars, isSpeaking, isListening,
                    audioLevel, connectionQuality, lastUserInput,
                    voiceActivityTimeout, retryCount, voiceTimers, retryTimers,
                    alerts, transcriptFinals, now, mounted, vapiHandlers >>
    /\ rendered' = Snapshot'

\* the Voice Settings panel is rendered only in these phases, l.311
SettingsVisible == rendered.callStatus = INACTIVE \/ rendered.callStatus = FINISHED

\* the noise-reduction checkbox shown in every phase
SetNoiseReductionAnyPhase(checked) ==
    /\ Committed
    /\ conversationContext' =
          [conversationContext EXCEPT !.userPreferences.noiseReduction = checked]
    /\ UNCHANGED << callVars, micVars, relayVars, rendered >>

\* the noise-reduction checkbox, l.316-325
SetNoiseReduction(checked) ==
    /\ Committed
    /\ SettingsVisible
    /\ conversationContext' =
          [conversationContext EXCEPT !.userPreferences.noiseReduction = checked]
    /\ UNCHANGED << callVars, micVars, relayVars, rendered >>

\* the echo-cancellation checkbox, l.332-341
SetEchoCancellation(checked) ==
    /\ Committed
    /\ SettingsVisible
    /\ conversationContext' =
          [conversationContext EXCEPT !.userPreferences.echoCancellation = checked]
    /\ UNCHANGED << callVars, micVars, relayVars, rendered >>

\* the quality select and updateVoiceQuality, l.298-306 and l.347-349
UpdateVoiceQuality(quality) ==
    /\ Committed
    /\ SettingsVisible
    /\ conversationContext' =
          [conversationContext EXCEPT !.userPreferences.voiceQuality = quality]
    /\ UNCHANGED << callVars, micVars, relayVars, rendered >>

\* ------------------------------------------------------------------- retry
\* retryConnection, l.119-136.  The guard and the delay read the retryCount of
\* the render that created the callback; the increment is a functional update.
RetryConnection ==
    /\ IF rendered.retryCount < RetryLimit
         THEN /\ retryCount' = retryCount + 1
              /\ retryTimers' = [retryTimers EXCEPT
                                    ![RetryStepMs * rendered.retryCount] = @ + 1]
         ELSE UNCHANGED << retryCount, retryTimers >>
    /\ UNCHANGED << callStatus, isSpeaking, isListening, isMuted, messages,
                    audioLevel, connectionQuality, lastUserInput,
                    voiceActivityTimeout, conversationContext, rendered,
                    voiceTimers, vapiMuted, mounted, vapiHandlers, startPending, stopPending, alerts,
                    historyThisCall, setMutedCalls, transcriptFinals, cleared,
                    now >>

\* the setTimeout callback of l.124-134.  handleCall catches every failure of
\* vapi.start itself, so the await never throws and l.127-133 never runs.
RetryTimerFires(delay) ==
    /\ retryTimers[delay] > 0
    /\ retryTimers' = [retryTimers EXCEPT ![delay] = @ - 1]
    /\ HandleCall
    /\ UNCHANGED << isSpeaking, isListening, isMuted, messages, audioLevel,
                    connectionQuality, lastUserInput, voiceActivityTimeout,
                    retryCount, conversationContext, rendered, voiceTimers,
                    vapiMuted, mounted, vapiHandlers, alerts, setMutedCalls, transcriptFinals, cleared,
                    now >>

\* ------------------------------------------------------ next-state relations
\* the guards that keep the counters and queues of the model finite
CanStart == startPending < MaxPendingStarts
CanStop == stopPending < MaxPendingStops
CanToggle == setMutedCalls < MaxToggles
CanRecord == historyThisCall < MaxHistory
CanAlert == Len(alerts) < MaxAlerts
CanArm(limit) ==
    Cardinality(ClearTimeout(voiceTimers, rendered.voiceActivityTimeout)) < limit
CanTick == now < MaxClock
RECURSIVE SumOver(_, _)
SumOver(f, S) ==
    IF S = {} THEN 0
    ELSE LET x == CHOOSE y \in S : TRUE IN f[x] + SumOver(f, S \ {x})
PendingRetries == SumOver(retryTimers, RetryDelays)
CanReceive(message, finals, timers) ==
    IF message.type = "transcript" /\ message.transcriptType = "final"
      THEN Len(transcriptFinals) < finals
      ELSE message.type = "transcript" => CanArm(timers)
KeyInBounds(key) ==
    /\ key = "CtrlSpace" => CanToggle
    /\ key = "Escape" => CanStop
    /\ key = "CtrlEnter" => CanStart

\* the user's session controls
UserNext ==
    \/ CanStart /\ ClickStartSession
    \/ CanStop /\ ClickEndSession
    \/ \E o \in ToggleOutcomes : CanToggle /\ ClickMicrophone(o)
    \/ \E k \in Keys, o \in ToggleOutcomes : KeyInBounds(k) /\ HandleKeyPress(k, o)

\* the SDK settling the promises of start() and stop()
PromiseNext ==
    \/ VapiStartResolves
    \/ CanAlert /\ VapiStartRejects
    \/ CanRecord /\ VapiStopResolves
    \/ VapiStopRejects

\* the SDK's call lifecycle events
LifecycleNext ==
    \/ OnCallStart
    \/ CanRecord /\ OnCallEnd

\* the SDK's speech and capture events, and the silence timer
VoiceNext ==
    \/ OnSpeechStart
    \/ OnSpeechEnd
    \/ CanArm(MaxPendingTimers) /\ OnTranscriptStart
    \/ OnTranscriptEnd
    \/ \E t \in voiceTimers : VoiceActivityTimeoutFires(t)

\* the SDK's indicator events
IndicatorNext ==
    \/ \E v \in Volumes : OnVolumeLevel(v)
    \/ \E q \in Qualities : OnConnectionQualityChange(q)

\* the transcript
TranscriptNext ==
    \/ \E m \in SdkMessages : CanReceive(m, MaxFinals, MaxTranscriptTimers) /\ OnMessage(m)
    \/ ClickClear
    \/ CanTick /\ Tick

\* the Voice Settings panel
SettingsNext ==
    \/ \E b \in BOOLEAN : SetNoiseReduction(b)
    \/ \E b \in BOOLEAN : SetEchoCancellation(b)
    \/ \E q \in VoiceQuality : UpdateVoiceQuality(q)

\* The component as wired: nothing calls retryConnection.  Its state space is
\* the product of the parts below, which are checked one by one.
Next ==
    \/ UserNext
    \/ PromiseNext
    \/ LifecycleNext
    \/ VoiceNext
    \/ IndicatorNext
    \/ TranscriptNext
    \/ SettingsNext
    \/ Render

Spec == Init /\ [][Next]_vars

\* The component's parts, each with every action that writes a variable the
\* part's actions read.

\* Call State Controller: the session controls, the promises and the lifecycle
ControllerNext ==
    \/ UserNext
    \/ PromiseNext
    \/ LifecycleNext
    \/ Render

SpecController == Init /\ [][ControllerNext]_vars

\* the controller with retryConnection given a caller
RetryNext ==
    \/ CanStart /\ ClickStartSession
    \/ VapiStartResolves
    \/ CanAlert /\ VapiStartRejects
    \/ LifecycleNext
    \/ Render
    \/ retryCount < MaxRetryCount /\ PendingRetries < MaxRetryTimers /\ RetryConnection
    \/ \E d \in RetryDelays : CanStart /\ RetryTimerFires(d)

SpecRetry == Init /\ [][RetryNext]_vars

\* Event Relay and silence timer: speech, capture and partial transcripts
VoiceRelayNext ==
    \/ VoiceNext
    \/ \E m \in SdkMessages : m.transcriptType = "partial" /\ CanArm(MaxPendingTimers) /\ OnMessage(m)
    \/ LifecycleNext
    \/ Render

SpecVoice == Init /\ [][VoiceRelayNext]_vars

\* Transcript: the message list across the call phases; the clock stands
\* still, so every timestamp ties
TranscriptRelayNext ==
    \/ \E m \in SdkMessages : CanReceive(m, MaxFinals, MaxTranscriptTimers) /\ OnMessage(m)
    \/ ClickClear
    \/ LifecycleNext
    \/ CanStart /\ ClickStartSession
    \/ CanArm(MaxTranscriptTimers) /\ OnTranscriptStart
    \/ Render

SpecTranscript == Init /\ [][TranscriptRelayNext]_vars

\* Context window: the same utterance received more often than the window holds
ContextNext ==
    \/ \E m \in ContextMessages : CanReceive(m, MaxContextFinals, MaxTranscriptTimers) /\ OnMessage(m)
    \/ ClickClear
    \/ CanTick /\ Tick
    \/ Render

SpecContext == Init /\ [][ContextNext]_vars

\* Connection: the retrying controller with the connection-quality indicator
CallStartNext ==
    \/ RetryNext
    \/ \E q \in Qualities : OnConnectionQualityChange(q)

SpecCallStart == Init /\ [][CallStartNext]_vars

\* the SDK delivers event e to the handler the current render registered
Delivers(e) == mounted /\ [event |-> e, render |-> "current"] \in vapiHandlers

\* Event subscription: mounting, re-rendering and unmounting with vapi.on and
\* vapi.off calls that may throw, and the events that change what a render sees
SubscriptionNext ==
    \/ \E offs \in CallsDone, ons \in CallsDone : RenderEffects(offs, ons)
    \/ \E offs \in CallsDone : Unmount(offs)
    \/ \E ons \in CallsDone : Mount(ons)
    \/ Delivers("call-start") /\ OnCallStart
    \/ Delivers("transcript-start") /\ CanArm(MaxTranscriptTimers) /\ OnTranscriptStart
    \/ Delivers("transcript-end") /\ OnTranscriptEnd
    \/ \E t \in voiceTimers : mounted /\ VoiceActivityTimeoutFires(t)

SpecSubscription == Init /\ [][SubscriptionNext]_vars

\* Event Relay: the nine SDK events, the silence timer and re-rendering
EventNext ==
    \/ LifecycleNext
    \/ \E m \in SdkMessages : CanReceive(m, MaxFinals, MaxTranscriptTimers) /\ OnMessage(m)
    \/ OnSpeechStart
    \/ OnSpeechEnd
    \/ CanArm(MaxTranscriptTimers) /\ OnTranscriptStart
    \/ OnTranscriptEnd
    \/ IndicatorNext
    \/ \E t \in voiceTimers : VoiceActivityTimeoutFires(t)
    \/ Render

SpecEvents == Init /\ [][EventNext]_vars

\* Voice Preferences: the settings panel across the call phases, with the
\* final transcripts that write the same state object
PreferencesNext ==
    \/ SettingsNext
    \/ CanStart /\ ClickStartSession
    \/ CanStop /\ ClickEndSession
    \/ PromiseNext
    \/ LifecycleNext
    \/ \E m \in ContextMessages :
          m.transcriptType = "final" /\ Len(transcriptFinals) < MaxFinals /\ OnMessage(m)
    \/ Render

SpecPreferences == Init /\ [][PreferencesNext]_vars

\* ------------------------------------------------------------------ claims
\* a step in which the SDK delivers call-end to onCallEnd
CallEndDelivered == OnCallEnd \/ VapiStopResolves

\* a step taken by one of the user's session controls
UserControlStep ==
    \/ ClickStartSession
    \/ ClickEndSession
    \/ \E o \in ToggleOutcomes : ClickMicrophone(o)
    \/ \E k \in Keys, o \in ToggleOutcomes : HandleKeyPress(k, o)

\* a step in which a silence timer fires
SilenceTimerFires == \E t \in voiceTimers : VoiceActivityTimeoutFires(t)

\* C1: a rejected vapi.start() with the retry counter below 3 increments the
\* counter and schedules a new start after 1000 * retryCount ms.
C1_StartFailureSchedulesRetry ==
    [][(VapiStartRejects /\ retryCount < RetryLimit) =>
          /\ retryCount' = retryCount + 1
          /\ retryTimers' = [retryTimers EXCEPT ![RetryStepMs * retryCount] = @ + 1]]_vars

C3_OnlySdkEventsLeaveConnecting ==
    [][/\ ClickStartSession => callStatus' = CONNECTING /\ startPending' = startPending + 1
       /\ (callStatus = CONNECTING /\ callStatus' # CONNECTING) =>
             \/ OnCallStart /\ callStatus' = ACTIVE
             \/ CallEndDelivered /\ callStatus' = FINISHED]_vars

\* C3 as amended: starting sets the phase to CONNECTING at once, with the
\* start call still pending; the phase leaves CONNECTING only by call-start
\* (to ACTIVE), by call-end (to FINISHED) or by the start call being rejected
\* (to INACTIVE); no user control changes the phase while it is CONNECTING.
C3_ConnectingLeftBySdkOnly ==
    [][/\ ClickStartSession => callStatus' = CONNECTING /\ startPending' = startPending + 1
       /\ (callStatus = CONNECTING /\ callStatus' # CONNECTING) =>
             \/ OnCallStart /\ callStatus' = ACTIVE
             \/ CallEndDelivered /\ callStatus' = FINISHED
             \/ VapiStartRejects /\ callStatus' = INACTIVE
       /\ (callStatus = CONNECTING /\ UserControlStep) => callStatus' = CONNECTING]_vars

\* C3 witness: a session has just been started and its start call is pending
C3_Witness ==
    callStatus = CONNECTING /\ rendered.callStatus = CONNECTING /\ startPending = 1

\* C4: at most one silence timer is pending at any time.
C4_AtMostOnePendingTimer == Cardinality(voiceTimers) <= 1

\* C5: whenever a pending silence timer fires, the listening flag is false
\* afterwards.
C5_FiredTimerStopsListening == [][SilenceTimerFires => isListening' = FALSE]_vars

\* C6: while the transcript has not been cleared, the message list holds
\* exactly the final-transcript events received, newest first in arrival order.
C6_MessagesNewestFirst == ~cleared => messages = Reverse(transcriptFinals)

\* C6 witness: two different final transcripts received during a call
C6_Witness ==
    /\ ~cleared
    /\ Len(messages) = 2
    /\ messages[1] # messages[2]
    /\ callStatus = ACTIVE
    /\ lastUserInput = "hel"

\* C7: the context window never holds more than 10 entries.
C7_ContextWindowBounded == Len(conversationContext.previousMessages) <= ContextLimit

\* C7 witness: more final transcripts received than the window holds
C7_Witness ==
    /\ Len(transcriptFinals) > ContextLimit
    /\ Len(conversationContext.previousMessages) = ContextLimit

\* C8: right after a final-transcript event is handled, the front of the
\* message list carries the event's role and text and the partial input is
\* empty.
C8_FinalTranscriptAtFront ==
    [][\A m \in SdkMessages :
          (m.type = "transcript" /\ m.transcriptType = "final" /\ OnMessage(m)) =>
              /\ Len(messages') > 0
              /\ Head(messages').role = m.role
              /\ Head(messages').content = m.transcript
              /\ lastUserInput' = ""]_vars

\* C8 witness: the scenario's end state: start, call-start, transcript-start,
\* partial "hel", final "hello" from the user
C8_Witness ==
    /\ callStatus = ACTIVE
    /\ isListening
    /\ voiceTimers # {}
    /\ Len(messages) = 1
    /\ messages[1].role = "user"
    /\ messages[1].content = "hello"
    /\ lastUserInput = ""

\* C9: outside phase ACTIVE no step changes the local mute flag or the SDK's,
\* and none calls vapi.setMuted.
C9_MuteOnlyWhenActive ==
    [][callStatus # ACTIVE => UNCHANGED << isMuted, vapiMuted, setMutedCalls >>]_vars

\* C9 witness: a muted session that has finished, with the controls rendered
C9_Witness == callStatus = FINISHED /\ isMuted /\ vapiMuted /\ Committed

\* C10: once a call has reached FINISHED and its stop() has settled, its
\* history entry has been recorded.
C10_FinishedCallRecorded ==
    (callStatus = FINISHED /\ stopPending = 0) => historyThisCall >= 1

\* C11: whenever a call-start event is handled, the phase is ACTIVE, the retry
\* counter 0 and the connection quality "good" afterwards, whatever they were.
C11_CallStartResets ==
    [][OnCallStart =>
          /\ callStatus' = ACTIVE
          /\ retryCount' = 0
          /\ connectionQuality' = "good"]_vars

\* C11 witness: call-start has just been handled on a render that shows a
\* connecting session with a retry counted
C11_Witness ==
    /\ callStatus = ACTIVE
    /\ retryCount = 0
    /\ connectionQuality = "good"
    /\ rendered.callStatus = CONNECTING
    /\ rendered.retryCount > 0

\* C12: once the component has unmounted, none of its handlers is registered
\* with the SDK client, also when a vapi.on or vapi.off call threw.
C12_NoHandlerAfterUnmount == ~mounted => vapiHandlers = {}

\* C13: Escape disconnects only in phase ACTIVE, Ctrl+Enter starts only in
\* phase INACTIVE, Ctrl+Space toggles mute only in phase ACTIVE; a key press
\* in any other phase changes nothing.
C13_ShortcutsActInPhase ==
    [][\A k \in Keys, o \in ToggleOutcomes : HandleKeyPress(k, o) =>
          /\ (k = "Escape" /\ callStatus = ACTIVE) =>
                callStatus' = FINISHED /\ stopPending' = stopPending + 1
          /\ (k = "CtrlEnter" /\ callStatus = INACTIVE) =>
                callStatus' = CONNECTING /\ startPending' = startPending + 1
          /\ (k = "CtrlSpace" /\ callStatus = ACTIVE /\ o = "ok") =>
                isMuted' = ~vapiMuted /\ vapiMuted' = ~vapiMuted
          /\ ~ \/ k = "Escape" /\ callStatus = ACTIVE
               \/ k = "CtrlEnter" /\ callStatus = INACTIVE
               \/ k = "CtrlSpace" /\ callStatus = ACTIVE
             => UNCHANGED vars]_vars

\* C13 witness: a session ended from the keyboard or the button, shown as
\* finished, where Ctrl+Enter does not start another
C13_Witness ==
    /\ callStatus = FINISHED
    /\ Committed
    /\ startPending = 0
    /\ stopPending = 1

\* C14: every change of the phase follows an edge of the documented state
\* machine: to CONNECTING only from INACTIVE or FINISHED, to ACTIVE only from
\* CONNECTING, to INACTIVE only from CONNECTING, to FINISHED from ACTIVE on
\* disconnect or from any phase on call-end.
C14_PhaseFollowsStateMachine ==
    [][callStatus' # callStatus =>
          /\ callStatus' = CONNECTING => callStatus \in {INACTIVE, FINISHED}
          /\ callStatus' = ACTIVE => callStatus = CONNECTING
          /\ callStatus' = INACTIVE => callStatus = CONNECTING
          /\ callStatus' = FINISHED => (callStatus = ACTIVE \/ CallEndDelivered)]_vars

\* C15: when vapi.start() rejects, exactly one alert is raised for the attempt
\* and the phase is INACTIVE afterwards, from whichever phase the start was
\* issued.
C15_RejectedStartAlertsOnce ==
    [][VapiStartRejects =>
          /\ callStatus' = INACTIVE
          /\ alerts' = Append(alerts, StartFailedAlert)
          /\ startPending' = startPending - 1]_vars

\* C15 witness: a start was rejected after a session had been active and
\* muted: one alert, phase INACTIVE, no start pending
C15_Witness ==
    /\ callStatus = INACTIVE
    /\ Committed
    /\ alerts = << StartFailedAlert >>
    /\ startPending = 0
    /\ isMuted

\* a step in which the user disconnects: End Session or Escape in phase ACTIVE
DisconnectStep ==
    \/ ClickEndSession
    \/ \E o \in ToggleOutcomes : callStatus = ACTIVE /\ HandleKeyPress("Escape", o)

\* C16: a disconnect in phase ACTIVE sets the phase to FINISHED and calls
\* vapi.stop(); a rejection of vapi.stop() changes nothing but the pending
\* promise, so the phase is not reverted by it.
C16_DisconnectFinishes ==
    [][/\ DisconnectStep =>
             callStatus' = FINISHED /\ stopPending' = stopPending + 1
       /\ VapiStopRejects =>
             /\ callStatus' = callStatus
             /\ alerts' = alerts
             /\ historyThisCall' = historyThisCall]_vars

\* C16 witness: the session was ended and its stop() was rejected: phase
\* FINISHED with no call-end handled and no stop pending
C16_Witness ==
    /\ callStatus = FINISHED
    /\ rendered.callStatus = FINISHED
    /\ stopPending = 0
    /\ historyThisCall = 0

\* a step of handler A after which a second delivery to A would change nothing
Idempotent(A) == A => (ENABLED (A /\ UNCHANGED vars))'

\* C17: each of the nine SDK event handlers is idempotent: delivering the same
\* event again right after it has been handled leaves the state, the history
\* records and the pending timers as they are.
C17_HandlersIdempotent ==
    [][/\ Idempotent(OnCallStart)
       /\ Idempotent(OnCallEnd)
       /\ \A m \in SdkMessages : Idempotent(OnMessage(m))
       /\ Idempotent(OnSpeechStart)
       /\ Idempotent(OnSpeechEnd)
       /\ Idempotent(OnTranscriptStart)
       /\ Idempotent(OnTranscriptEnd)
       /\ \A v \in Volumes : Idempotent(OnVolumeLevel(v))
       /\ \A q \in Qualities : Idempotent(OnConnectionQualityChange(q))]_vars

\* C18: after a speech-start event is handled, speaking is true, listening is
\* false and no silence timer is pending, also when the timer was armed more
\* than once since the last render.
C18_SpeechStartCancelsTimers ==
    [][OnSpeechStart =>
          /\ isSpeaking' = TRUE
          /\ isListening' = FALSE
          /\ voiceTimers' = {}]_vars

\* a step in which one of the nine SDK event handlers runs
SdkEventStep ==
    \/ OnCallStart
    \/ CallEndDelivered
    \/ \E m \in SdkMessages : OnMessage(m)
    \/ OnSpeechStart
    \/ OnSpeechEnd
    \/ OnTranscriptStart
    \/ OnTranscriptEnd
    \/ \E v \in Volumes : OnVolumeLevel(v)
    \/ \E q \in Qualities : OnConnectionQualityChange(q)

\* C19: the voice preferences change only while the phase is INACTIVE or
\* FINISHED: no step taken in phase CONNECTING or ACTIVE changes them, and no
\* SDK event does in any phase.
C19_PreferencesOnlyWhenIdle ==
    [][/\ callStatus \in {CONNECTING, ACTIVE} =>
             UNCHANGED conversationContext.userPreferences
       /\ SdkEventStep => UNCHANGED conversationContext.userPreferences]_vars

\* C19 witness: preferences changed before the session are still in place in
\* phase ACTIVE after a final transcript has been written to the same object
C19_Witness ==
    /\ callStatus = ACTIVE
    /\ Committed
    /\ conversationContext.userPreferences =
          [voiceQuality |-> "high", noiseReduction |-> FALSE,
           echoCancellation |-> FALSE]
    /\ Len(conversationContext.previousMessages) > 0

\* the first n entries of s, or all of s when it has fewer
FirstEntries(s, n) == SubSeq(s, 1, IF Len(s) < n THEN Len(s) ELSE n)

\* C20: the context window is always the 10 most recent final transcripts
\* received, newest first; until the transcript is cleared it is the first
\* entries of the message list; and clearing empties the message list and
\* leaves the context window, the partial input and the phase as they were.
C20_ContextIsRecentFinals ==
    /\ [](/\ conversationContext.previousMessages =
                FirstEntries(Reverse(transcriptFinals), ContextLimit)
          /\ ~cleared => conversationContext.previousMessages =
                            FirstEntries(messages, ContextLimit))
    /\ [][ClickClear =>
             /\ messages' = << >>
             /\ UNCHANGED << conversationContext, lastUserInput, callStatus >>]_vars

\* C20 witness: the transcript was cleared after more finals than the window
\* holds, with a partial input showing: the window is still full
C20_Witness ==
    /\ cleared
    /\ messages = << >>
    /\ Len(transcriptFinals) > ContextLimit
    /\ Len(conversationContext.previousMessages) = ContextLimit
    /\ lastUserInput = "hel"

\* C21: right after a call-end event is handled, in whatever phase, the phase
\* is FINISHED, listening and speaking are false, the audio level is 0 and the
\* silence timer tracked in voiceActivityTimeout is no longer pending; the
\* message list, context window, mute flag and retry counter are unchanged.
C21_CallEndResets ==
    [][CallEndDelivered =>
          /\ callStatus' = FINISHED
          /\ isListening' = FALSE
          /\ isSpeaking' = FALSE
          /\ audioLevel' = 0
          /\ \A t \in voiceTimers' : t.id # voiceActivityTimeout'
          /\ UNCHANGED << messages, conversationContext, isMuted, retryCount >>]_vars

\* a step in which toggleMicrophone runs with the given outcome
ToggleStep(o) ==
    \/ ClickMicrophone(o)
    \/ callStatus = ACTIVE /\ HandleKeyPress("CtrlSpace", o)

\* C22: the local mute flag always equals the SDK client's, the SDK starting
\* unmuted and nothing else changing it: a toggle flips both together, and a
\* toggle in which isMuted() or setMuted() throws leaves both as they were.
C22_MuteFlagMatchesSdk ==
    /\ [](isMuted = vapiMuted)
    /\ [][/\ ToggleStep("ok") =>
                isMuted' = ~isMuted /\ vapiMuted' = ~vapiMuted
          /\ (ToggleStep("isMutedThrows") \/ ToggleStep("setMutedThrows")) =>
                UNCHANGED << isMuted, vapiMuted >>]_vars

\* C22 witness: one toggle muted the session and another threw in setMuted
C22_Witness ==
    /\ callStatus = ACTIVE
    /\ isMuted
    /\ vapiMuted
    /\ setMutedCalls = MaxToggles

====
